---- MODULE Spec2Model ----
(***************************************************************************)
(* A model of LMAXDisruptor.cpp: one producer thread, numConsumers         *)
(* chained consumer threads and the main thread, sharing a ring buffer     *)
(* and fixed-width atomic sequence counters.  Every step of a thread is    *)
(* one access to shared memory; the threads interleave freely.             *)
(*                                                                         *)
(* The source runs 4 consumers on a ring of 2^8 slots with 64-bit          *)
(* counters.  The model keeps the code and scales the three dimensions     *)
(* (numConsumers, p, WordBits) down, so that the epoch rebase of the       *)
(* producer (sequence == ull_max) is reachable from the initial state.     *)
(***************************************************************************)
EXTENDS Integers, Sequences, FiniteSets, TLC

\* ------------------------------------------------------------ dimensions
\* const int numConsumers = 4, scaled
numConsumers == 2

\* const uint32_t p = 8, scaled
p == 1

\* how many bits a counter has beyond the p bits of a ring index
ExtraBits == 2

\* the width of std::atomic<uint64_t>, scaled
WordBits == p + ExtraBits

RECURSIVE Pow2(_)
Pow2(n) == IF n = 0 THEN 1 ELSE 2 * Pow2(n - 1)

size_ == Pow2(p)

Modulus == Pow2(WordBits)

ull_max == Modulus - 1

\* unsigned fixed-width arithmetic of uint64_t, scaled to WordBits
Wrap(x) == ((x % Modulus) + Modulus) % Modulus

Consumers == 0 .. (numConsumers - 1)

next_consumer_id(i) == IF i = numConsumers - 1 THEN -1 ELSE i + 1

\* ------------------------------------------------------------ payloads
RECURSIVE to_string_size(_)
to_string_size(n) == IF n < 10 THEN 1 ELSE 1 + to_string_size(n \div 10)

\* "Message: " + std::to_string(n); the text is identified by n, and the
\* length passed to Write is message.size() + 1 as a uint8_t
MessageFor(n) == [data |-> n, size |-> (9 + to_string_size(n) + 1) % 256]

\* a slot of new Block[size] is not initialised
Uninit == [data |-> -1, size |-> -1]

\* idx = block_idx & l, with l = size - 1 and size a power of two
RingIndex(block_idx) == block_idx % size_

\* ------------------------------------------------------------ state
VARIABLES
    sequence,            \* Counter sequence (the producer's cursor)
    consumer_sequences,  \* Counter consumer_sequences[numConsumers]
    buffer,              \* RingBuffer::buffer
    producer_running,
    consumer_running,
    ppc,                 \* where the producer thread is
    pi,                  \* the producer's loop variable i
    message,             \* the producer's local std::string message
    cpc,                 \* where each consumer thread is
    lhs,                 \* the operand a consumer has loaded of a comparison
    block_idx,           \* Read's argument block_idx
    data_size,           \* the consumer's local data_size
    data,                \* the consumer's local data[64]
    mpc,                 \* where main is
    mi,                  \* main's loop variable i
    pending,             \* history: what was written and consumer i has not read
    owed                 \* history: what consumer i had left to read when
                         \* main cleared producer_running, less its reads since

shared == <<sequence, consumer_sequences, buffer>>
flags == <<producer_running, consumer_running>>
plocals == <<ppc, pi, message>>
clocals == <<cpc, lhs, block_idx, data_size, data>>
mlocals == <<mpc, mi>>
history == <<pending, owed>>
vars == <<shared, flags, plocals, clocals, mlocals, history>>

NoMessage == [data |-> 0, size |-> 0]

Init ==
    /\ sequence = 0
    /\ consumer_sequences = [i \in Consumers |-> 0]
    /\ buffer = [k \in 0 .. (size_ - 1) |-> Uninit]
    /\ producer_running = TRUE
    /\ consumer_running = TRUE
    /\ ppc = "unborn"
    /\ pi = 0
    /\ message = NoMessage
    /\ cpc = [i \in Consumers |-> "unborn"]
    /\ lhs = [i \in Consumers |-> 0]
    /\ block_idx = [i \in Consumers |-> 0]
    /\ data_size = [i \in Consumers |-> 0]
    /\ data = [i \in Consumers |-> 0]
    /\ mpc = "spawn_producer"
    /\ mi = 0
    /\ pending = [i \in Consumers |-> <<>>]
    /\ owed = [i \in Consumers |-> 0]

\* A plain bool written by main while another thread reads it is a data
\* race: the reader sees the cleared flag, or still the value it had.
ReadFlag(flag) == IF flag THEN {TRUE} ELSE {TRUE, FALSE}

\* ------------------------------------------------------------ producer
\* while (producer_running)
ProducerWhile ==
    /\ ppc = "while"
    /\ \E running \in ReadFlag(producer_running) :
          IF running
          THEN ppc' = "check" /\ pi' = 0
          ELSE ppc' = "done" /\ pi' = pi
    /\ UNCHANGED <<shared, flags, message, clocals, mlocals, history>>

\* auto diff = sequence.sequence - consumer_sequences[i].sequence
Diff(i) == Wrap(sequence - consumer_sequences[i])

\* the admission loop without the test sequence == ull_max after it
ProducerCheckMutNoRebase ==
    /\ ppc = "check"
    /\ IF Diff(pi) >= size_
       THEN ppc' = "while" /\ pi' = 0
       ELSE IF pi + 1 < numConsumers
            THEN ppc' = "check" /\ pi' = pi + 1
            ELSE ppc' = "write" /\ pi' = 0
    /\ UNCHANGED <<shared, flags, message, clocals, mlocals, history>>

\* the admission loop without the continue of a denied iteration
ProducerCheckMutNoContinue ==
    /\ ppc = "check"
    /\ IF Diff(pi) < size_ /\ pi + 1 < numConsumers
       THEN ppc' = "check" /\ pi' = pi + 1
       ELSE /\ pi' = 0
            /\ ppc' = IF sequence = ull_max THEN "rebase" ELSE "write"
    /\ UNCHANGED <<shared, flags, message, clocals, mlocals, history>>

\* the admission loop with diff > size_ for diff >= size_
ProducerCheckMutOffByOne ==
    /\ ppc = "check"
    /\ IF Diff(pi) > size_
       THEN ppc' = "while" /\ pi' = 0
       ELSE IF pi + 1 < numConsumers
            THEN ppc' = "check" /\ pi' = pi + 1
            ELSE /\ pi' = 0
                 /\ ppc' = IF sequence = ull_max THEN "rebase" ELSE "write"
    /\ UNCHANGED <<shared, flags, message, clocals, mlocals, history>>

\* one iteration of the admission loop, then the test sequence == ull_max
ProducerCheck ==
    /\ ppc = "check"
    /\ IF Diff(pi) >= size_
       THEN ppc' = "while" /\ pi' = 0
       ELSE IF pi + 1 < numConsumers
            THEN ppc' = "check" /\ pi' = pi + 1
            ELSE /\ pi' = 0
                 /\ ppc' = IF sequence = ull_max THEN "rebase" ELSE "write"
    /\ UNCHANGED <<shared, flags, message, clocals, mlocals, history>>

\* ull_max / size_, without the two capacities of headroom
cMut == Wrap(ull_max \div size_)

\* uint64_t c = ull_max / size_ - 2
c == Wrap((ull_max \div size_) - 2)

\* the mask l = size - 1 taken for the capacity
RebaseAmountMut == Wrap(c * (size_ - 1))

\* c * size_
RebaseAmount == Wrap(c * size_)

\* consumer_sequences[i].sequence -= c * size_
ProducerRebase ==
    /\ ppc = "rebase"
    /\ consumer_sequences' =
          [consumer_sequences EXCEPT ![pi] = Wrap(@ - RebaseAmount)]
    /\ IF pi + 1 < numConsumers
       THEN ppc' = "rebase" /\ pi' = pi + 1
       ELSE ppc' = "rebase_self" /\ pi' = 0
    /\ UNCHANGED <<sequence, buffer, flags, message, clocals, mlocals, history>>

\* sequence.sequence -= c * size_
ProducerRebaseSelf ==
    /\ ppc = "rebase_self"
    /\ sequence' = Wrap(sequence - RebaseAmount)
    /\ ppc' = "write"
    /\ UNCHANGED <<consumer_sequences, buffer, flags, pi, message, clocals,
                   mlocals, history>>

\* message = "Message: " + to_string(sequence); Write: buffer[idx].size_ = size
ProducerWriteSize ==
    /\ ppc = "write"
    /\ message' = MessageFor(sequence)
    /\ buffer' = [buffer EXCEPT ![RingIndex(sequence)].size = message'.size]
    /\ ppc' = "write_data"
    /\ UNCHANGED <<sequence, consumer_sequences, flags, pi, clocals, mlocals,
                   history>>

\* Write's memcpy with a test of producer_running after it that leaves the
\* loop before the fetch_add
ProducerWriteDataMut ==
    /\ ppc = "write_data"
    /\ buffer' = [buffer EXCEPT ![RingIndex(sequence)].data = message.data]
    /\ pending' = [i \in Consumers |-> Append(pending[i], message)]
    /\ owed' = owed
    /\ \E running \in ReadFlag(producer_running) :
          ppc' = IF running THEN "publish" ELSE "done"
    /\ UNCHANGED <<sequence, consumer_sequences, flags, pi, message, clocals,
                   mlocals>>

\* Write: memcpy(buffer[idx].data, data, size)
ProducerWriteData ==
    /\ ppc = "write_data"
    /\ buffer' = [buffer EXCEPT ![RingIndex(sequence)].data = message.data]
    /\ pending' = [i \in Consumers |-> Append(pending[i], message)]
    /\ owed' = owed
    /\ ppc' = "publish"
    /\ UNCHANGED <<sequence, consumer_sequences, flags, pi, message, clocals,
                   mlocals>>

\* sequence.sequence.fetch_add(1, release)
ProducerPublish ==
    /\ ppc = "publish"
    /\ sequence' = Wrap(sequence + 1)
    /\ message' = NoMessage
    /\ ppc' = "while"
    /\ UNCHANGED <<consumer_sequences, buffer, flags, pi, clocals, mlocals,
                   history>>

producer ==
    \/ ProducerWhile
    \/ ProducerCheck
    \/ ProducerRebase
    \/ ProducerRebaseSelf
    \/ ProducerWriteSize
    \/ ProducerWriteData
    \/ ProducerPublish

\* ------------------------------------------------------------ consumers
\* The two operands of a < are atomic loads the compiler may order either
\* way: a consumer loads one of them into lhs, then the other, and compares.

\* while (consumer_running), without the test for unread data
ConsumerWhileMut(i) ==
    /\ cpc[i] = "while"
    /\ \E running \in ReadFlag(consumer_running) :
          cpc' = [cpc EXCEPT ![i] = IF running THEN "if" ELSE "done"]
    /\ UNCHANGED <<shared, flags, plocals, lhs, block_idx, data_size, data,
                   mlocals, history>>

\* while (consumer_running || ...): the flag
ConsumerWhile(i) ==
    /\ cpc[i] = "while"
    /\ \E running \in ReadFlag(consumer_running) :
          cpc' = [cpc EXCEPT ![i] = IF running THEN "if" ELSE "while_load"]
    /\ UNCHANGED <<shared, flags, plocals, lhs, block_idx, data_size, data,
                   mlocals, history>>

\* ... consumer_sequences[consumer_id].sequence < sequence.sequence.load():
\* the first operand
ConsumerWhileLoad(i) ==
    /\ cpc[i] = "while_load"
    /\ \/ /\ lhs' = [lhs EXCEPT ![i] = consumer_sequences[i]]
          /\ cpc' = [cpc EXCEPT ![i] = "while_own_loaded"]
       \/ /\ lhs' = [lhs EXCEPT ![i] = sequence]
          /\ cpc' = [cpc EXCEPT ![i] = "while_seq_loaded"]
    /\ UNCHANGED <<shared, flags, plocals, block_idx, data_size, data,
                   mlocals, history>>

\* the second operand and the test of the while
ConsumerWhileTest(i) ==
    /\ cpc[i] \in {"while_own_loaded", "while_seq_loaded"}
    /\ LET less == IF cpc[i] = "while_own_loaded"
                   THEN lhs[i] < sequence
                   ELSE consumer_sequences[i] < lhs[i]
       IN  cpc' = [cpc EXCEPT ![i] = IF less THEN "if" ELSE "done"]
    /\ lhs' = [lhs EXCEPT ![i] = 0]
    /\ UNCHANGED <<shared, flags, plocals, block_idx, data_size, data,
                   mlocals, history>>

\* if (consumer_sequences[consumer_id].sequence < sequence.sequence.load():
\* the first operand
ConsumerIfLoad(i) ==
    /\ cpc[i] = "if"
    /\ \/ /\ lhs' = [lhs EXCEPT ![i] = consumer_sequences[i]]
          /\ cpc' = [cpc EXCEPT ![i] = "if_own_loaded"]
       \/ /\ lhs' = [lhs EXCEPT ![i] = sequence]
          /\ cpc' = [cpc EXCEPT ![i] = "if_seq_loaded"]
    /\ UNCHANGED <<shared, flags, plocals, block_idx, data_size, data,
                   mlocals, history>>

\* the second operand; && short-circuits, and next_consumer_id == -1 admits
ConsumerIfTest(i) ==
    /\ cpc[i] \in {"if_own_loaded", "if_seq_loaded"}
    /\ LET less == IF cpc[i] = "if_own_loaded"
                   THEN lhs[i] < sequence
                   ELSE consumer_sequences[i] < lhs[i]
       IN  cpc' = [cpc EXCEPT ![i] =
                      IF ~less THEN "while"
                      ELSE IF next_consumer_id(i) = -1 THEN "read"
                      ELSE "upstream"]
    /\ lhs' = [lhs EXCEPT ![i] = 0]
    /\ UNCHANGED <<shared, flags, plocals, block_idx, data_size, data,
                   mlocals, history>>

\* consumer_sequences[consumer_id].sequence
\*     < consumer_sequences[next_consumer_id].sequence.load(): first operand
ConsumerUpstreamLoad(i) ==
    /\ cpc[i] = "upstream"
    /\ \/ /\ lhs' = [lhs EXCEPT ![i] = consumer_sequences[i]]
          /\ cpc' = [cpc EXCEPT ![i] = "upstream_own_loaded"]
       \/ /\ lhs' = [lhs EXCEPT ![i] = consumer_sequences[next_consumer_id(i)]]
          /\ cpc' = [cpc EXCEPT ![i] = "upstream_next_loaded"]
    /\ UNCHANGED <<shared, flags, plocals, block_idx, data_size, data,
                   mlocals, history>>

\* the second operand and the test
ConsumerUpstreamTest(i) ==
    /\ cpc[i] \in {"upstream_own_loaded", "upstream_next_loaded"}
    /\ LET less == IF cpc[i] = "upstream_own_loaded"
                   THEN lhs[i] < consumer_sequences[next_consumer_id(i)]
                   ELSE consumer_sequences[i] < lhs[i]
       IN  cpc' = [cpc EXCEPT ![i] = IF less THEN "read" ELSE "while"]
    /\ lhs' = [lhs EXCEPT ![i] = 0]
    /\ UNCHANGED <<shared, flags, plocals, block_idx, data_size, data,
                   mlocals, history>>

\* buffer.Read((uint32_t)consumer_sequences[consumer_id].sequence, ...):
\* the argument
ConsumerReadArg(i) ==
    /\ cpc[i] = "read"
    /\ block_idx' = [block_idx EXCEPT ![i] = consumer_sequences[i]]
    /\ cpc' = [cpc EXCEPT ![i] = "read_size"]
    /\ UNCHANGED <<shared, flags, plocals, lhs, data_size, data, mlocals,
                   history>>

\* Read: size = buffer[idx].size_
ConsumerReadSize(i) ==
    /\ cpc[i] = "read_size"
    /\ data_size' = [data_size EXCEPT ![i] = buffer[RingIndex(block_idx[i])].size]
    /\ cpc' = [cpc EXCEPT ![i] = "read_data"]
    /\ UNCHANGED <<shared, flags, plocals, lhs, block_idx, data, mlocals,
                   history>>

\* Read: memcpy(data, buffer[idx].data, size)
ConsumerReadData(i) ==
    /\ cpc[i] = "read_data"
    /\ data' = [data EXCEPT ![i] = buffer[RingIndex(block_idx[i])].data]
    /\ cpc' = [cpc EXCEPT ![i] = "advance"]
    /\ UNCHANGED <<shared, flags, plocals, lhs, block_idx, data_size, mlocals,
                   history>>

\* consumer_sequences[consumer_id].sequence.fetch_add(1, release)
ConsumerAdvance(i) ==
    /\ cpc[i] = "advance"
    /\ consumer_sequences' = [consumer_sequences EXCEPT ![i] = Wrap(@ + 1)]
    /\ pending' = [pending EXCEPT ![i] = IF @ = <<>> THEN @ ELSE Tail(@)]
    /\ owed' = [owed EXCEPT ![i] = IF @ > 0 THEN @ - 1 ELSE 0]
    /\ block_idx' = [block_idx EXCEPT ![i] = 0]
    /\ data_size' = [data_size EXCEPT ![i] = 0]
    /\ data' = [data EXCEPT ![i] = 0]
    /\ cpc' = [cpc EXCEPT ![i] = "while"]
    /\ UNCHANGED <<sequence, buffer, flags, plocals, lhs, mlocals>>

consumer(i) ==
    \/ ConsumerWhile(i)
    \/ ConsumerWhileLoad(i)
    \/ ConsumerWhileTest(i)
    \/ ConsumerIfLoad(i)
    \/ ConsumerIfTest(i)
    \/ ConsumerUpstreamLoad(i)
    \/ ConsumerUpstreamTest(i)
    \/ ConsumerReadArg(i)
    \/ ConsumerReadSize(i)
    \/ ConsumerReadData(i)
    \/ ConsumerAdvance(i)

\* ------------------------------------------------------------ main
\* The producer's sequence as consumer i's counter counts: while the producer
\* is between rebasing consumer i's counter and rebasing its own, its own is
\* still RebaseAmount ahead.
PublishedFor(i) ==
    IF ppc = "rebase_self" \/ (ppc = "rebase" /\ pi > i)
    THEN sequence - RebaseAmount
    ELSE sequence

\* the sequence numbers published that consumer i has not advanced past
Backlog(i) ==
    IF consumer_sequences[i] < PublishedFor(i)
    THEN PublishedFor(i) - consumer_sequences[i]
    ELSE 0

\* std::thread producer_thread(&producer)
MainSpawnProducer ==
    /\ mpc = "spawn_producer"
    /\ ppc' = "while"
    /\ mpc' = "spawn_consumers"
    /\ UNCHANGED <<shared, flags, pi, message, clocals, mi, history>>

\* consumer_threads[i] = std::thread(&consumer, i, next_consumer_id)
MainSpawnConsumer ==
    /\ mpc = "spawn_consumers"
    /\ cpc' = [cpc EXCEPT ![mi] = "while"]
    /\ IF mi + 1 < numConsumers
       THEN mpc' = mpc /\ mi' = mi + 1
       ELSE mpc' = "sleep" /\ mi' = 0
    /\ UNCHANGED <<shared, flags, plocals, lhs, block_idx, data_size, data,
                   history>>

\* sleep_for(3 s) returns; producer_running = false
MainStopProducer ==
    /\ mpc = "sleep"
    /\ producer_running' = FALSE
    /\ mpc' = "join_producer"
    /\ owed' = [i \in Consumers |-> Backlog(i)]
    /\ UNCHANGED <<shared, consumer_running, plocals, clocals, mi, pending>>

\* producer_thread.join(); consumer_running = false
MainStopConsumers ==
    /\ mpc = "join_producer"
    /\ ppc = "done"
    /\ consumer_running' = FALSE
    /\ mpc' = "join_consumers"
    /\ UNCHANGED <<shared, producer_running, plocals, clocals, mi, history>>

\* consumer_threads[i].join()
MainJoinConsumer ==
    /\ mpc = "join_consumers"
    /\ cpc[mi] = "done"
    /\ IF mi + 1 < numConsumers
       THEN mpc' = mpc /\ mi' = mi + 1
       ELSE mpc' = "end" /\ mi' = 0
    /\ UNCHANGED <<shared, flags, plocals, clocals, history>>

main ==
    \/ MainSpawnProducer
    \/ MainSpawnConsumer
    \/ MainStopProducer
    \/ MainStopConsumers
    \/ MainJoinConsumer

\* ------------------------------------------------------------ the system
Next ==
    \/ producer
    \/ \E i \in Consumers : consumer(i)
    \/ main

Spec == Init /\ [][Next]_vars

\* Every thread is a thread of the operating system and keeps being scheduled.
FairSpec ==
    /\ Spec
    /\ WF_vars(producer)
    /\ \A i \in Consumers : WF_vars(consumer(i))
    /\ WF_vars(main)

\* Only the consumer threads are known to keep being scheduled.
ConsumersFairSpec ==
    /\ Spec
    /\ \A i \in Consumers : WF_vars(consumer(i))

\* ------------------------------------------------------------ a stall
\* A consumer thread that dies or hangs: from any point of consumer() on it
\* takes no further step.
ConsumerStall(i) ==
    /\ cpc[i] \notin {"unborn", "done", "stalled"}
    /\ cpc' = [cpc EXCEPT ![i] = "stalled"]
    /\ UNCHANGED <<shared, flags, plocals, lhs, block_idx, data_size, data,
                   mlocals, history>>

StallNext ==
    \/ Next
    \/ \E i \in Consumers : ConsumerStall(i)

StallSpec == Init /\ [][StallNext]_vars

\* ------------------------------------------------------------ Write alone
\* RingBuffer::Write as a caller can invoke it: any block_idx, any length a
\* uint8_t argument takes, up to MaxWriteSize.

\* uint8_t data[63]
PayloadCapacity == 63

\* the largest length drawn for the argument size
MaxWriteSize == 65

\* what the bytes copied past data[62] leave where they land
Overrun == [data |-> -2, size |-> -2]

WriteInit ==
    /\ sequence \in 0 .. ull_max
    /\ consumer_sequences = [i \in Consumers |-> 0]
    /\ buffer = [k \in 0 .. (size_ - 1) |-> Uninit]
    /\ producer_running = TRUE
    /\ consumer_running = TRUE
    /\ ppc = "Write"
    /\ pi = 0
    /\ message \in [data : {0}, size : 0 .. MaxWriteSize]
    /\ cpc = [i \in Consumers |-> "unborn"]
    /\ lhs = [i \in Consumers |-> 0]
    /\ block_idx = [i \in Consumers |-> 0]
    /\ data_size = [i \in Consumers |-> 0]
    /\ data = [i \in Consumers |-> 0]
    /\ mpc = "spawn_producer"
    /\ mi = 0
    /\ pending = [i \in Consumers |-> <<>>]
    /\ owed = [i \in Consumers |-> 0]

\* buffer[idx].size_ = size
WriteStoreSize ==
    /\ ppc = "Write"
    /\ buffer' = [buffer EXCEPT ![RingIndex(sequence)].size = message.size]
    /\ ppc' = "Write_memcpy"
    /\ UNCHANGED <<sequence, consumer_sequences, flags, pi, message, clocals,
                   mlocals, history>>

\* std::memcpy(buffer[idx].data, data, size).  With size > 63 the copy runs
\* past data[62]: byte 63 lands on size_ of the same Block and the bytes
\* from 64 on land on the next Block or past the array, which is undefined.
WriteMemcpy ==
    /\ ppc = "Write_memcpy"
    /\ LET idx == RingIndex(sequence)
           copied == [buffer EXCEPT ![idx].data = message.data]
       IN  IF message.size <= PayloadCapacity
           THEN buffer' = copied
           ELSE \E byte63 \in {0, message.size, 255} :
                \E spills \in BOOLEAN :
                   buffer' =
                      [k \in 0 .. (size_ - 1) |->
                          IF k = idx
                          THEN [data |-> message.data, size |-> byte63]
                          ELSE IF /\ k = idx + 1
                                  /\ message.size > PayloadCapacity + 1
                                  /\ spills
                               THEN Overrun
                               ELSE copied[k]]
    /\ ppc' = "Write_done"
    /\ UNCHANGED <<sequence, consumer_sequences, flags, pi, message, clocals,
                   mlocals, history>>

WriteNext ==
    \/ WriteStoreSize
    \/ WriteMemcpy

WriteSpec == WriteInit /\ [][WriteNext]_vars

\* Main starts every thread, and the producer and the consumers keep being
\* scheduled; main may stay in its sleep, so that the flags stay set.
WorkersFairSpec ==
    /\ Spec
    /\ WF_vars(MainSpawnProducer \/ MainSpawnConsumer)
    /\ WF_vars(producer)
    /\ \A i \in Consumers : WF_vars(consumer(i))

\* ------------------------------------------------------------ claims
\* where a consumer is while Read copies the slot of its sequence out
Reading == {"read_size", "read_data"}

HasUpstream(i) == next_consumer_id(i) # -1

\* C1: in every reachable state the producer is at most capacity ahead of
\* the slowest consumer: producer.sequence - min_i(consumer[i].sequence)
\* <= capacity.
C1_Safety == \A i \in Consumers : sequence - consumer_sequences[i] <= size_

\* C2: a consumer reads the slot of sequence s only while s <
\* producer.sequence, and no consumer counter is ever above the producer's.
C2_NoReadBeforePublish ==
    /\ \A i \in Consumers : cpc[i] \in Reading => consumer_sequences[i] < sequence
    /\ \A i \in Consumers : consumer_sequences[i] <= sequence

\* C3: when the producer writes the slot of sequence s, the admission test
\* s - consumer[i].sequence < capacity (the code's unsigned diff) still holds
\* for every consumer i.
C3_AdmittedAtWrite ==
    ppc \in {"write", "write_data"} => \A i \in Consumers : Diff(i) < size_

\* C4: the producer is never between starting the write of a slot and
\* publishing it while a consumer is between starting its read of the same
\* slot index and advancing.
C4_NoConflictingAccess ==
    ~ ( /\ ppc \in {"write_data", "publish"}
        /\ \E i \in Consumers :
              /\ cpc[i] \in {"read_data", "advance"}
              /\ RingIndex(block_idx[i]) = RingIndex(sequence) )

\* C5: a consumer with an upstream consumer is never ahead of it:
\* consumer[i].sequence <= consumer[i + 1].sequence.
C5_Chain ==
    \A i \in Consumers :
       HasUpstream(i) =>
          consumer_sequences[i] <= consumer_sequences[next_consumer_id(i)]

\* C6: what a consumer reads, in the order it advances, is what the producer
\* wrote, in write order: each read returns the oldest payload written that
\* this consumer has not read yet.
C6_NoLossNoDuplicate ==
    \A i \in Consumers :
       cpc[i] = "advance" =>
          /\ pending[i] # <<>>
          /\ Head(pending[i]) = [data |-> data[i], size |-> data_size[i]]

\* C7: no consumer terminates with consumer.sequence < producer.sequence, and
\* once main has cleared producer_running every consumer eventually advances
\* past all the sequence numbers that were published and unread by it then,
\* if the consumer threads keep being scheduled.
C7_NoEarlyExit ==
    \A i \in Consumers : cpc[i] = "done" => consumer_sequences[i] >= sequence

C7_Drained ==
    (~producer_running) ~> (\A i \in Consumers : owed[i] = 0)

C7_DrainOnStop == []C7_NoEarlyExit /\ C7_Drained

\* a consumer finishing, after both flags were cleared, the last read it owed
C7_Witness ==
    \E i \in Consumers :
       ~consumer_running /\ cpc[i] = "advance" /\ owed[i] = 1

\* C8: when the rebase completes (the producer has subtracted c * size_ from
\* every consumer counter and then from its own), the producer is 0 ..
\* capacity ahead of every consumer, the chain order holds and no consumer
\* is past what is published.
AfterRebase ==
    /\ \A i \in Consumers : Diff(i) <= size_
    /\ \A i \in Consumers : consumer_sequences[i] <= sequence
    /\ C5_Chain

C8_RebaseAtomicInEffect == [][ProducerRebaseSelf => AfterRebase']_vars

\* C9: each subtraction of the rebase leaves the ring index of the counter it
\* changes as it was.
C9_RebaseKeepsIndex ==
    [][ /\ ProducerRebase =>
              RingIndex(consumer_sequences'[pi]) = RingIndex(consumer_sequences[pi])
        /\ ProducerRebaseSelf => RingIndex(sequence') = RingIndex(sequence)
      ]_vars

\* every consumer counter has been rebased, the producer's is next
C9_Witness ==
    /\ ppc = "rebase_self"
    /\ \A i \in Consumers : consumer_sequences[i] < ull_max - size_

\* C10: a consumer with an upstream consumer reads the slot of sequence s
\* only after the upstream consumer has advanced past s.
C10_AfterUpstream ==
    \A i \in Consumers :
       (HasUpstream(i) /\ cpc[i] \in Reading) =>
          consumer_sequences[i] < consumer_sequences[next_consumer_id(i)]

\* C11: the producer leaves its loop only at the loop head, on reading
\* producer_running false; when it has terminated no write is left without
\* its increment of sequence (every increment of sequence by one comes right
\* after the write of that slot), and after it has terminated neither
\* sequence nor any slot changes.
C11_NoWriteInFlight == ppc = "done" => message = NoMessage

C11_StopClean ==
    /\ []C11_NoWriteInFlight
    /\ [][ /\ (ppc' = "done" /\ ppc # "done") =>
                 (ppc = "while" /\ ~producer_running)
           /\ (ppc = "done") => UNCHANGED <<sequence, buffer, ppc>>
           /\ (sequence' = Wrap(sequence + 1)) =>
                 (ppc = "publish" /\ message = buffer[RingIndex(sequence)])
         ]_vars

\* the producer has terminated after publishing what it wrote
C11_Witness ==
    /\ ppc = "done"
    /\ sequence > 0
    /\ buffer[RingIndex(sequence - 1)] = MessageFor(sequence - 1)

\* C12: a counter changes only by its owner's increment by exactly one (the
\* producer's fetch_add on sequence, consumer i's on consumer_sequences[i]),
\* which never wraps, or by the rebase's subtraction of c * size_; so the
\* only decreases are the subtractions of the rebase.
C12_Monotonic ==
    [][ /\ (sequence' # sequence) =>
              \/ ProducerPublish /\ sequence' = sequence + 1
              \/ ProducerRebaseSelf /\ sequence' = sequence - RebaseAmount
        /\ \A i \in Consumers :
              (consumer_sequences'[i] # consumer_sequences[i]) =>
                 \/ /\ ConsumerAdvance(i)
                    /\ consumer_sequences'[i] = consumer_sequences[i] + 1
                 \/ /\ ProducerRebase /\ pi = i
                    /\ consumer_sequences'[i] =
                          consumer_sequences[i] - RebaseAmount
      ]_vars

\* after a rebase, the producer and every consumer have incremented again
C12_Witness ==
    /\ sequence = ull_max - RebaseAmount + 1
    /\ ppc = "while"
    /\ \A i \in Consumers : consumer_sequences[i] = sequence

C14_SpinNoEffect ==
    [][ /\ (ppc \in {"while", "check"} /\ plocals' # plocals) =>
              UNCHANGED shared
        /\ (ppc = "check" /\ Diff(pi) >= size_ /\ plocals' # plocals) =>
              (ppc' = "while" /\ UNCHANGED shared)
      ]_vars

\* the ring is full for the slowest consumer, which denies admission
C14_Witness ==
    /\ ppc = "check"
    /\ pi = 0
    /\ Diff(pi) = size_
    /\ \A k \in 0 .. (size_ - 1) : buffer[k] # Uninit

\* C15: no subtraction of the rebase wraps below zero (the counter it is
\* applied to is >= c * size_); when the rebase completes, sequence =
\* 3 * size_ - 1 and every consumer counter is >= 2 * size_; and the
\* producer's fetch_add never increments sequence from ull_max.
C15_RebaseHeadroom ==
    [][ /\ ProducerRebase => consumer_sequences[pi] >= RebaseAmount
        /\ ProducerRebaseSelf =>
              /\ sequence >= RebaseAmount
              /\ sequence' = 3 * size_ - 1
              /\ \A i \in Consumers : consumer_sequences'[i] >= 2 * size_
        /\ ProducerPublish => sequence # ull_max
      ]_vars

\* the rebase has completed: the slot of ull_max - 1 holds the last message
\* published before it, and sequence is back at ull_max - c * size_
C15_Witness ==
    /\ ppc = "write"
    /\ sequence = ull_max - RebaseAmount
    /\ buffer[RingIndex(ull_max - 1)] = MessageFor(ull_max - 1)

\* C16: for a consumer that has stalled, the producer publishes at most
\* size_ sequence numbers past the consumer's counter; once it is that far
\* ahead it is in its admission loop or at the loop head and neither
\* sequence nor any slot changes again; and it writes no slot the stalled
\* consumer has not read.
Stalled(i) == cpc[i] = "stalled"

\* the slots of the sequence numbers published that consumer i has not read
UnreadSlots(i) ==
    {RingIndex(s) : s \in consumer_sequences[i] .. (sequence - 1)}

C16_BoundedAhead ==
    \A i \in Consumers :
       Stalled(i) =>
          /\ Backlog(i) <= size_
          /\ (Backlog(i) = size_) => ppc \in {"while", "check", "done"}
          /\ (ppc \in {"write_data", "publish"}) =>
                RingIndex(sequence) \notin UnreadSlots(i)

C16_StalledConsumer ==
    /\ []C16_BoundedAhead
    /\ [][ \A i \in Consumers :
              (Stalled(i) /\ Backlog(i) = size_) =>
                 UNCHANGED <<sequence, buffer>> ]_vars

\* consumer 0 has stalled, the ring is full for it and the producer is being
\* denied, while the consumer without upstream has read everything
C16_Witness ==
    /\ Stalled(0)
    /\ Backlog(0) = size_
    /\ ppc = "check" /\ pi = 0
    /\ producer_running
    /\ consumer_sequences[numConsumers - 1] = sequence

\* C17: with the producer and the consumers scheduled fairly, a producer in
\* its admission loop is eventually admitted (it goes on to the rebase or to
\* Write), for as long as producer_running is set.
C17_Progress ==
    (ppc = "check" /\ producer_running)
       ~> (ppc \in {"rebase", "write"} \/ ~producer_running)

C19_ShutdownOrder ==
    /\ (~consumer_running) => ppc = "done"
    /\ \A i \in Consumers :
          cpc[i] = "done" =>
             (ppc = "done" /\ consumer_sequences[i] = sequence)
    /\ (mpc = "end") =>
          \A i \in Consumers : consumer_sequences[i] = sequence

====
